---------------------------- MODULE Spec2Model ----------------------------
(***************************************************************************)
(* A model of src/src/seabed_map.py: main() reads a bag of topic-tagged    *)
(* messages once, keeps the latest vehicle pose, turns every selected      *)
(* sonar frame into world samples, and grids the samples into a raster of  *)
(* mean intensities.                                                       *)
(*                                                                         *)
(* Numbers.  Coordinates, intensities and the resolution are integers of   *)
(* one length unit; bin edges and means are exact rationals, so the        *)
(* rounding of the floating-point arithmetic is not modelled.  Headings    *)
(* are multiples of 90 degrees, for which the rotation is exact.           *)
(* An optional value (Python's None) is the empty sequence, a set value v  *)
(* is the one-element sequence <<v>>.                                      *)
(***************************************************************************)
EXTENDS Integers, Sequences, FiniteSets, TLC

VARIABLES
    args,               \* parsed command line: resolution, max_frames, skip_frames
    poses,              \* the pose dictionary: easting, northing, heading, depth
    all_xw,             \* list of per-frame world x arrays
    all_yw,             \* list of per-frame world y arrays
    all_int,            \* list of per-frame intensity arrays
    total_raw_frames,   \* sonar messages seen while the pose was complete
    processed_frames,   \* sonar messages that passed the stride
    msg,                \* the message of the current loop iteration
    nread,              \* number of messages taken from the reader
    pc,                 \* "loop", "after_loop", "failed", "saved"
    err,                \* the exception that ended the run, or "none"
    raster,             \* <<>> or <<the saved map: nx, ny, extent, counts, heatmap>>
    latest              \* history: the last value the stream carried, per kind

vars == <<args, poses, all_xw, all_yw, all_int, total_raw_frames,
          processed_frames, msg, nread, pc, err, raster, latest>>

(***************************************************************************)
(* Bounds of the model and the input values the stream and the command     *)
(* line are drawn from.                                                    *)
(***************************************************************************)
MaxEvents == 7
MaxAccFrames == 3

ResolutionValues == {-1, 0, 1, 2}
SkipValues == {-1, 0, 1, 2, 3}
MaxFramesValues == {<<>>, <<-1>>, <<0>>, <<1>>, <<2>>}

FixValues == {<<0, 0>>, <<2, 1>>}      \* <<latitude, longitude>>
HeadingValues == {0, 90}
AltValues == {3}
Payloads == {0, 1, 2}                  \* 0 is a payload that holds no ping

TOPIC_FIX == "/bluerov2/mavros/global_position/global"
TOPIC_HDG == "/bluerov2/mavros/global_position/compass_hdg"
TOPIC_ALT == "/bluerov2/mavros/global_position/rel_alt"
TOPIC_SONAR == "/oculus/raw_data"
TOPIC_OTHER == "/oak_d_lite/rgb/image_color/h265"

Messages ==
    {[topic |-> TOPIC_FIX, data |-> f] : f \in FixValues}
    \cup {[topic |-> TOPIC_HDG, data |-> <<h>>] : h \in HeadingValues}
    \cup {[topic |-> TOPIC_ALT, data |-> <<d>>] : d \in AltValues}
    \cup {[topic |-> TOPIC_SONAR, data |-> <<p>>] : p \in Payloads}
    \cup {[topic |-> TOPIC_OTHER, data |-> <<>>]}

NoMessage == [topic |-> "", data |-> <<>>]

(***************************************************************************)
(* The external collaborators, by what they return.                        *)
(***************************************************************************)
\* utm.from_latlon: <<easting, northing>>; easting comes from the longitude,
\* northing from the latitude.
from_latlon(lat, lon) == <<lon, lat>>

\* unpack_data_entry followed by polar_to_cart: the Cartesian frame of a
\* payload as its flattened tables, <<>> when the payload holds no ping.
unpack_data_entry(p) ==
    CASE p = 1 -> << [xs |-> <<1>>, ys |-> <<0>>, inten |-> <<10>>] >>
      [] p = 2 -> << [xs |-> <<0, 1>>, ys |-> <<1, 1>>, inten |-> <<0, 20>>] >>
      [] OTHER -> <<>>

Cos(deg) == CASE deg % 360 = 0 -> 1 [] deg % 360 = 180 -> -1 [] OTHER -> 0
Sin(deg) == CASE deg % 360 = 90 -> 1 [] deg % 360 = 270 -> -1 [] OTHER -> 0

(***************************************************************************)
(* The loop body of main().                                                *)
(***************************************************************************)
NoPose == [easting |-> <<>>, northing |-> <<>>, heading |-> <<>>, depth |-> <<>>]

\* mutant: the depth is not looked at
PoseIncomplete_NoDepth(p) ==
    \/ p.easting = <<>>
    \/ p.northing = <<>>
    \/ p.heading = <<>>

\* None in poses.values()
PoseIncomplete(p) ==
    \/ p.easting = <<>>
    \/ p.northing = <<>>
    \/ p.heading = <<>>
    \/ p.depth = <<>>

\* mutant: easting and northing are taken in the wrong order
UpdatePose_Swapped(p, m) ==
    CASE m.topic = TOPIC_FIX ->
            LET en == from_latlon(m.data[1], m.data[2])
            IN  [p EXCEPT !.easting = <<en[2]>>, !.northing = <<en[1]>>]
      [] m.topic = TOPIC_HDG -> [p EXCEPT !.heading = <<m.data[1]>>]
      [] m.topic = TOPIC_ALT -> [p EXCEPT !.depth = <<m.data[1]>>]
      [] OTHER -> p

\* the three navigation branches
UpdatePose(p, m) ==
    CASE m.topic = TOPIC_FIX ->
            LET en == from_latlon(m.data[1], m.data[2])
            IN  [p EXCEPT !.easting = <<en[1]>>, !.northing = <<en[2]>>]
      [] m.topic = TOPIC_HDG -> [p EXCEPT !.heading = <<m.data[1]>>]
      [] m.topic = TOPIC_ALT -> [p EXCEPT !.depth = <<m.data[1]>>]
      [] OTHER -> p

\* mutant: the first frame of every N is taken instead of the Nth
StrideSkips_FirstOfN(n, skip) == skip > 1 /\ ((n - 1) % skip) # 0

\* args.skip_frames > 1 and (total_raw_frames % args.skip_frames) != 0
StrideSkips(n, skip) == skip > 1 /\ (n % skip) # 0

\* mutant: the cap is compared one too late
CapReached_OneLate(n, cap) == cap # <<>> /\ n > cap[1] + 1

\* args.max_frames is not None and processed_frames > args.max_frames
CapReached(n, cap) == cap # <<>> /\ n > cap[1]

\* X = xs*cos - ys*sin + easting
RotX(cart, p) ==
    [k \in 1..Len(cart.xs) |->
        cart.xs[k] * Cos(p.heading[1]) - cart.ys[k] * Sin(p.heading[1])
            + p.easting[1]]

\* Y = xs*sin + ys*cos + northing
RotY(cart, p) ==
    [k \in 1..Len(cart.xs) |->
        cart.xs[k] * Sin(p.heading[1]) + cart.ys[k] * Cos(p.heading[1])
            + p.northing[1]]

\* history: what the stream has carried so far, independent of the program
Observe(l, m) ==
    CASE m.topic = TOPIC_FIX -> [l EXCEPT !.fix = <<m.data>>]
      [] m.topic = TOPIC_HDG -> [l EXCEPT !.hdg = <<m.data[1]>>]
      [] m.topic = TOPIC_ALT -> [l EXCEPT !.alt = <<m.data[1]>>]
      [] OTHER -> l

\* the sonar branch; ends in continue (pc stays "loop") or break
SonarBranch(m) ==
    IF PoseIncomplete(poses)
    THEN UNCHANGED <<total_raw_frames, processed_frames, all_xw, all_yw,
                     all_int, pc>>
    ELSE
      /\ total_raw_frames' = total_raw_frames + 1
      /\ IF StrideSkips(total_raw_frames + 1, args.skip_frames)
         THEN UNCHANGED <<processed_frames, all_xw, all_yw, all_int, pc>>
         ELSE
           /\ processed_frames' = processed_frames + 1
           /\ IF CapReached(processed_frames + 1, args.max_frames)
              THEN /\ pc' = "after_loop"
                   /\ UNCHANGED <<all_xw, all_yw, all_int>>
              ELSE
                /\ pc' = pc
                /\ LET ping == unpack_data_entry(m.data[1])
                   IN  IF ping = <<>>
                       THEN UNCHANGED <<all_xw, all_yw, all_int>>
                       ELSE /\ all_xw' = Append(all_xw, RotX(ping[1], poses))
                            /\ all_yw' = Append(all_yw, RotY(ping[1], poses))
                            /\ all_int' = Append(all_int, ping[1].inten)

\* one iteration of "for connection, timestamp, raw in reader.messages()"
ReadMessage ==
    /\ pc = "loop"
    /\ nread < MaxEvents
    /\ \E m \in Messages :
        /\ msg' = m
        /\ nread' = nread + 1
        /\ latest' = Observe(latest, m)
        /\ IF m.topic = TOPIC_SONAR
           THEN /\ SonarBranch(m)
                /\ poses' = poses
           ELSE /\ poses' = UpdatePose(poses, m)
                /\ UNCHANGED <<total_raw_frames, processed_frames, all_xw,
                               all_yw, all_int, pc>>
    /\ UNCHANGED <<args, err, raster>>

\* reader.messages() is exhausted
EndOfStream ==
    /\ pc = "loop"
    /\ pc' = "after_loop"
    /\ UNCHANGED <<args, poses, all_xw, all_yw, all_int, total_raw_frames,
                   processed_frames, msg, nread, err, raster, latest>>

(***************************************************************************)
(* After the loop: the empty check, np.hstack, the bounding box, the two   *)
(* np.histogram2d calls, the normalisation and plt.savefig.                *)
(***************************************************************************)
RECURSIVE hstack(_)
\* np.hstack of a list of arrays
hstack(arrays) ==
    IF arrays = <<>> THEN <<>> ELSE Head(arrays) \o hstack(Tail(arrays))

Range(s) == {s[k] : k \in DOMAIN s}
Min(S) == CHOOSE v \in S : \A w \in S : v <= w
Max(S) == CHOOSE v \in S : \A w \in S : v >= w

\* np.ceil(a / b) for a >= 0 and b > 0
Ceil(a, b) == -((-a) \div b)

\* int(np.ceil(extent / resolution)), or the exception int() raises: the
\* quotient is inf or nan when the resolution is 0.0
NumBins(extent, resolution) ==
    CASE resolution > 0 -> [n |-> Ceil(extent, resolution), exc |-> "none"]
      [] resolution < 0 -> [n |-> -(extent \div (-resolution)), exc |-> "none"]
      [] extent > 0     -> [n |-> 0, exc |-> "OverflowError"]
      [] OTHER          -> [n |-> 0, exc |-> "ValueError"]

\* mutant: the last bin is half-open like the others
BinIndex_OpenLast(v, lo, hi, n) == ((v - lo) * n) \div (hi - lo)

\* np.histogram2d's bin of coordinate v among n equal bins over [lo, hi]:
\* the edges are lo + i*(hi-lo)/n, a bin holds [edge, next edge), and a
\* value on the last edge is put into the last bin.  Bins count from 0.
BinIndex(v, lo, hi, n) ==
    IF v = hi THEN n - 1 ELSE ((v - lo) * n) \div (hi - lo)

RECURSIVE GCD(_, _)
GCD(a, b) == IF b = 0 THEN a ELSE GCD(b, a % b)

\* the float quotient num / den, den > 0, as a reduced fraction
Quot(num, den) ==
    LET g == GCD(IF num < 0 THEN -num ELSE num, den)
    IN  <<num \div g, den \div g>>

\* the two histograms: per cell the sum of the weights and the count
Histogram2d(xw, yw, w, nx, ny, xmin, xmax, ymin, ymax) ==
    [c \in (0..(nx - 1)) \X (0..(ny - 1)) |->
        LET inside == {k \in DOMAIN xw :
                          /\ BinIndex(xw[k], xmin, xmax, nx) = c[1]
                          /\ BinIndex(yw[k], ymin, ymax, ny) = c[2]}
            RECURSIVE Sum(_)
            Sum(K) == IF K = {} THEN 0
                      ELSE LET k == CHOOSE j \in K : TRUE
                           IN  w[k] + Sum(K \ {k})
        IN  [sum |-> Sum(inside), count |-> Cardinality(inside)]]

\* mask = counts > 0; heatmap[mask] /= counts[mask]: the other cells keep
\* the 0.0 the weighted histogram gave them
Normalise(cell) ==
    IF cell.count > 0 THEN Quot(cell.sum, cell.count) ELSE <<cell.sum, 1>>

\* lines 122-171 for a non-empty list of frames
BuildMap(resolution) ==
    LET xw == hstack(all_xw)
        yw == hstack(all_yw)
        w  == hstack(all_int)
    IN  IF xw = <<>>
        THEN [exc |-> "ValueError", map |-> <<>>]
        ELSE
          LET xmin == Min(Range(xw))
              xmax == Max(Range(xw))
              ymin == Min(Range(yw))
              ymax == Max(Range(yw))
              bx == NumBins(xmax - xmin, resolution)
              by == NumBins(ymax - ymin, resolution)
          IN  CASE bx.exc # "none" -> [exc |-> bx.exc, map |-> <<>>]
                [] by.exc # "none" -> [exc |-> by.exc, map |-> <<>>]
                [] bx.n < 1 \/ by.n < 1 -> [exc |-> "ValueError", map |-> <<>>]
                [] OTHER ->
                    LET h == Histogram2d(xw, yw, w, bx.n, by.n,
                                         xmin, xmax, ymin, ymax)
                    IN  [exc |-> "none",
                         map |-> << [nx |-> bx.n, ny |-> by.n,
                                     xmin |-> xmin, xmax |-> xmax,
                                     ymin |-> ymin, ymax |-> ymax,
                                     counts |-> [c \in DOMAIN h |-> h[c].count],
                                     heatmap |-> [c \in DOMAIN h |->
                                                    Normalise(h[c])]] >>]

\* mutant: the empty check is missing
Finalize_NoEmptyCheck ==
    /\ pc = "after_loop"
    /\ LET r == BuildMap(args.resolution)
       IN  /\ pc' = IF r.exc = "none" THEN "saved" ELSE "failed"
           /\ err' = r.exc
           /\ raster' = r.map
    /\ UNCHANGED <<args, poses, all_xw, all_yw, all_int, total_raw_frames,
                   processed_frames, msg, nread, latest>>

\* "if not all_xw: raise RuntimeError(...)", else build and save the map
Finalize ==
    /\ pc = "after_loop"
    /\ IF all_xw = <<>>
       THEN /\ pc' = "failed"
            /\ err' = "RuntimeError"
            /\ raster' = <<>>
       ELSE LET r == BuildMap(args.resolution)
            IN  /\ pc' = IF r.exc = "none" THEN "saved" ELSE "failed"
                /\ err' = r.exc
                /\ raster' = r.map
    /\ UNCHANGED <<args, poses, all_xw, all_yw, all_int, total_raw_frames,
                   processed_frames, msg, nread, latest>>

Init ==
    /\ args \in [resolution : ResolutionValues,
                 max_frames : MaxFramesValues,
                 skip_frames : SkipValues]
    /\ poses = NoPose
    /\ all_xw = <<>>
    /\ all_yw = <<>>
    /\ all_int = <<>>
    /\ total_raw_frames = 0
    /\ processed_frames = 0
    /\ msg = NoMessage
    /\ nread = 0
    /\ pc = "loop"
    /\ err = "none"
    /\ raster = <<>>
    /\ latest = [fix |-> <<>>, hdg |-> <<>>, alt |-> <<>>]

Next == ReadMessage \/ EndOfStream \/ Finalize

Spec == Init /\ [][Next]_vars

(***************************************************************************)
(* The gridding alone: the state after the loop for a bounded choice of    *)
(* accumulated frames of one world sample each, then Finalize.             *)
(***************************************************************************)
WorldPoints == {<<0, 0>>, <<1, 1>>, <<3, 1>>, <<0, 2>>}
Intensities == {0, 10, 20, 30}
GridResolutions == {1, 2}

InitRaster ==
    \E n \in 0..MaxAccFrames :
      \E pts \in [1..n -> WorldPoints] :
        \E ints \in [1..n -> Intensities] :
          /\ all_xw = [k \in 1..n |-> <<pts[k][1]>>]
          /\ all_yw = [k \in 1..n |-> <<pts[k][2]>>]
          /\ all_int = [k \in 1..n |-> <<ints[k]>>]
          /\ total_raw_frames = n
          /\ processed_frames = n
          /\ nread = n + 3
          /\ args \in [resolution : GridResolutions,
                       max_frames : {<<>>},
                       skip_frames : {1}]
          /\ poses = [easting |-> <<0>>, northing |-> <<0>>,
                      heading |-> <<0>>, depth |-> <<3>>]
          /\ latest = [fix |-> << <<0, 0>> >>, hdg |-> <<0>>, alt |-> <<3>>]
          /\ msg = [topic |-> TOPIC_ALT, data |-> <<3>>]
          /\ pc = "after_loop"
          /\ err = "none"
          /\ raster = <<>>

SpecRaster == InitRaster /\ [][Finalize]_vars

(***************************************************************************)
(* Properties.                                                             *)
(***************************************************************************)
Accumulator == <<all_xw, all_yw, all_int>>
Counters == <<total_raw_frames, processed_frames>>

\* the stream has carried a position, a heading and a depth
StreamPoseComplete == latest.fix # <<>> /\ latest.hdg # <<>> /\ latest.alt # <<>>

\* the step consumes a sonar message
SonarStep == nread' = nread + 1 /\ msg'.topic = TOPIC_SONAR

\* the pose made of the last value the stream carried for each field
LatestPose ==
    [easting  |-> IF latest.fix = <<>> THEN <<>>
                  ELSE <<from_latlon(latest.fix[1][1], latest.fix[1][2])[1]>>,
     northing |-> IF latest.fix = <<>> THEN <<>>
                  ELSE <<from_latlon(latest.fix[1][1], latest.fix[1][2])[2]>>,
     heading  |-> latest.hdg,
     depth    |-> latest.alt]

\* C1 (pose gating): a sonar message that arrives before the stream has
\* carried each of position, heading and depth at least once leaves
\* all_xw, all_yw and all_int unchanged.
C1_PoseGating ==
    [][(SonarStep /\ ~StreamPoseComplete) => UNCHANGED Accumulator]_vars

\* a sonar message was consumed while only part of the pose was known
C1_Witness ==
    /\ msg.topic = TOPIC_SONAR
    /\ unpack_data_entry(msg.data[1]) # <<>>
    /\ latest.fix # <<>> /\ latest.hdg # <<>> /\ latest.alt = <<>>
    /\ all_xw = <<>>

\* C2 (stride): with stride N >= 1 and no cap, the frames processed are
\* exactly those whose eligibility count (sonar messages seen while the pose
\* was complete) is a multiple of N; so N = 1 processes all of them, and a
\* stride larger than the number of eligible frames processes none.
C2_Stride ==
    /\ []((args.max_frames = <<>> /\ args.skip_frames >= 1)
            => processed_frames = total_raw_frames \div args.skip_frames)
    /\ [][(args.max_frames = <<>> /\ args.skip_frames >= 1 /\ SonarStep)
            => /\ total_raw_frames' =
                    IF StreamPoseComplete THEN total_raw_frames + 1
                    ELSE total_raw_frames
               /\ processed_frames' =
                    IF StreamPoseComplete
                       /\ total_raw_frames' % args.skip_frames = 0
                    THEN processed_frames + 1 ELSE processed_frames
               /\ Len(all_xw') =
                    IF /\ StreamPoseComplete
                       /\ total_raw_frames' % args.skip_frames = 0
                       /\ unpack_data_entry(msg'.data[1]) # <<>>
                    THEN Len(all_xw) + 1 ELSE Len(all_xw)]_vars

\* stride 3, no cap: of three eligible frames the third one was processed
C2_Witness ==
    /\ args.skip_frames = 3 /\ args.max_frames = <<>>
    /\ total_raw_frames = 3 /\ processed_frames = 1 /\ Len(all_xw) = 1
    /\ msg.topic = TOPIC_SONAR

\* an accepted frame has made the processed count exceed the cap
CapExceeded ==
    /\ args.max_frames # <<>>
    /\ processed_frames >= 1
    /\ processed_frames > args.max_frames[1]

\* C3 (max-frame cap): with a cap C at most C frames ever contribute
\* samples, the accepted frame that makes the processed count exceed C ends
\* the loop, and from then on no step changes the pose, the counters or the
\* accumulator.
C3_MaxFrameCap ==
    /\ [](args.max_frames # <<>>
            => /\ Len(all_xw) <= (IF args.max_frames[1] > 0
                                  THEN args.max_frames[1] ELSE 0)
               /\ (CapExceeded => pc # "loop"))
    /\ [][CapExceeded
            => UNCHANGED <<poses, Counters, Accumulator, msg, nread>>]_vars

\* cap 2: two frames contributed and the third accepted frame stopped the loop
C3_Witness ==
    /\ args.max_frames = <<2>>
    /\ processed_frames = 3 /\ Len(all_xw) = 2
    /\ pc = "saved"

\* C4 (decode failure is free of the cap): with a valid configuration and a
\* cap C >= 1, when the loop
\* was stopped by the cap and the messages read hold at least C accepted
\* frames that decode (those that contributed and, if it decodes, the frame
\* at which the loop stopped), C frames have contributed samples.
C4_DecodeFailureKeepsCapSlot ==
    (/\ args.max_frames # <<>>
     /\ args.max_frames[1] >= 1
     /\ args.skip_frames >= 1
     /\ args.resolution > 0
     /\ pc # "loop"
     /\ processed_frames > args.max_frames[1]
     /\ Len(all_xw) + (IF unpack_data_entry(msg.data[1]) # <<>> THEN 1 ELSE 0)
            >= args.max_frames[1])
        => Len(all_xw) = args.max_frames[1]

\* C5 (empty input): a run that accumulated zero samples ends with the
\* RuntimeError of the empty check and never saves the map.
C5_EmptyInput ==
    hstack(all_xw) = <<>>
        => /\ pc # "saved"
           /\ raster = <<>>
           /\ (pc = "failed" => err = "RuntimeError")

\* the run failed on the empty check although a frame had been accepted
C5_Witness ==
    /\ pc = "failed" /\ err = "RuntimeError"
    /\ hstack(all_xw) = <<>>
    /\ processed_frames >= 1

\* C6 (configuration errors): with a non-positive resolution, stride or cap
\* no message is read: no pose update, no counter increment, no sample.
C6_ConfigRejected ==
    (\/ args.resolution <= 0
     \/ args.skip_frames <= 0
     \/ (args.max_frames # <<>> /\ args.max_frames[1] <= 0))
        => /\ nread = 0
           /\ poses = NoPose
           /\ total_raw_frames = 0 /\ processed_frames = 0
           /\ all_xw = <<>>

\* C9 (latest pose): every field of the pose is the last value the stream
\* carried for it; a complete pose stays complete; and the samples a sonar
\* frame contributes are its local tables moved by that latest pose.
C9_LatestPose ==
    /\ [](poses = LatestPose)
    /\ [][~PoseIncomplete(poses) => ~PoseIncomplete(poses')]_vars
    /\ [][(SonarStep /\ Accumulator' # Accumulator)
            => LET cart == unpack_data_entry(msg'.data[1])[1]
                   h == latest.hdg[1]
                   en == from_latlon(latest.fix[1][1], latest.fix[1][2])
               IN  /\ StreamPoseComplete
                   /\ all_xw' = Append(all_xw,
                        [k \in 1..Len(cart.xs) |->
                            cart.xs[k] * Cos(h) - cart.ys[k] * Sin(h) + en[1]])
                   /\ all_yw' = Append(all_yw,
                        [k \in 1..Len(cart.xs) |->
                            cart.xs[k] * Sin(h) + cart.ys[k] * Cos(h) + en[2]])
                   /\ all_int' = Append(all_int, cart.inten)]_vars

\* a frame was transformed with a position and a heading that had both been
\* overwritten since they were first set: fix <<2, 1>>, heading 90, payload 1
C9_Witness ==
    /\ msg = [topic |-> TOPIC_SONAR, data |-> <<1>>]
    /\ latest.fix = << <<2, 1>> >> /\ latest.hdg = <<90>>
    /\ nread >= 6
    /\ Len(all_xw) = 1
    /\ all_xw[1] = <<1>> /\ all_yw[1] = <<3>>

\* the samples of the scenario: three frames of one pixel each, at
\* (0,0,10), (0,0,20) and (1,1,30), gridded at resolution 1
Scenario ==
    /\ args.resolution = 1
    /\ Len(all_xw) = 3
    /\ {<<all_xw[k], all_yw[k], all_int[k]>> : k \in 1..3}
         = {<< <<0>>, <<0>>, <<10>> >>, << <<0>>, <<0>>, <<20>> >>,
            << <<1>>, <<1>>, <<30>> >>}

\* the cell of the saved map that holds world point (x, y)
CellOf(x, y) ==
    LET r == raster[1]
    IN  <<BinIndex(x, r.xmin, r.xmax, r.nx), BinIndex(y, r.ymin, r.ymax, r.ny)>>

\* C7 as amended: in the scenario the map is saved and is a single cell,
\* which holds (0,0) and (1,1) alike: count 3 and mean 20.
C7_ScenarioOneCell ==
    (Scenario /\ pc # "after_loop")
        => /\ pc = "saved"
           /\ raster[1].nx = 1 /\ raster[1].ny = 1
           /\ CellOf(0, 0) = <<0, 0>> /\ CellOf(1, 1) = <<0, 0>>
           /\ raster[1].counts[<<0, 0>>] = 3
           /\ raster[1].heatmap[<<0, 0>>] = <<20, 1>>

\* the scenario was gridded and saved
C7_Witness == Scenario /\ pc = "saved" /\ raster # <<>>

\* C7 as stated: in the scenario the cell holding (0,0) has mean 15 and
\* count 2, the cell holding (1,1) has mean 30 and count 1, and every other
\* cell is empty.
C7_ScenarioAsStated ==
    (Scenario /\ pc # "after_loop")
        => /\ pc = "saved"
           /\ raster[1].counts[CellOf(0, 0)] = 2
           /\ raster[1].heatmap[CellOf(0, 0)] = <<15, 1>>
           /\ raster[1].counts[CellOf(1, 1)] = 1
           /\ raster[1].heatmap[CellOf(1, 1)] = <<30, 1>>
           /\ \A c \in DOMAIN raster[1].counts :
                c \notin {CellOf(0, 0), CellOf(1, 1)}
                    => raster[1].counts[c] = 0

\* C8 (no data): in a saved map the value of every cell that holds no
\* sample differs from the value of a cell whose intensities average 0.
C8_NoDataDistinct ==
    raster # <<>>
        => \A c \in DOMAIN raster[1].counts :
              raster[1].counts[c] = 0
                  => raster[1].heatmap[c] # Normalise([sum |-> 0, count |-> 1])

\* C10 (geometry): for samples with xmax > xmin and ymax > ymin and a
\* resolution > 0, the saved grid spans exactly the bounding box with cells
\* of side exactly the resolution, and each sample lies in the bin
\* [edge, edge + resolution) of its cell, the last bin including xmax, ymax.
C10_CellSizeIsResolution ==
    (raster # <<>> /\ args.resolution > 0)
        => LET r == raster[1]
               res == args.resolution
               xw == hstack(all_xw)
               yw == hstack(all_yw)
               InBin(v, lo, hi, i, n) ==
                   /\ lo + i * res <= v
                   /\ \/ v < lo + (i + 1) * res
                      \/ (i = n - 1 /\ v = hi)
           IN  /\ r.xmin = Min(Range(xw)) /\ r.xmax = Max(Range(xw))
               /\ r.ymin = Min(Range(yw)) /\ r.ymax = Max(Range(yw))
               /\ r.nx * res = r.xmax - r.xmin
               /\ r.ny * res = r.ymax - r.ymin
               /\ \A k \in DOMAIN xw :
                    /\ InBin(xw[k], r.xmin, r.xmax, CellOf(xw[k], yw[k])[1], r.nx)
                    /\ InBin(yw[k], r.ymin, r.ymax, CellOf(xw[k], yw[k])[2], r.ny)

=============================================================================
